---- MODULE Spec2Model ----
(***************************************************************************)
(* A model of the CHIP-8 interpreter of src/src/chip8.rs: the 4096-byte    *)
(* ram, the register file, pc, sp and the stack, with load_rom, run (one   *)
(* step per cycle of its loop) and dump_to_stdout.                         *)
(***************************************************************************)
EXTENDS Integers, Sequences, FiniteSets, TLC

\* ------------------------------------------------------------ constants
\* ram: [u8; 4096]
RamSize == 4096
\* const NORMAL_START_INDEX: usize = 512
NORMAL_START_INDEX == 512
\* stack: [usize; 16]
StackSize == 16

\* ------------------------------------------------------------ bounds
\* how far the longest image overruns the space above NORMAL_START_INDEX
MaxOver == 1
\* calls of load_rom, run and dump_to_stdout in one behaviour
MaxCalls == 3
\* calls of put in one behaviour of the register file alone
MaxPuts == 2

Byte == 0..255
Addr == 0..(RamSize - 1)

\* ------------------------------------------------------------ integer arithmetic
RECURSIVE Pow2(_)
Pow2(n) == IF n = 0 THEN 1 ELSE 2 * Pow2(n - 1)

\* x & y on naturals
RECURSIVE BitAnd(_, _)
BitAnd(x, y) ==
  IF x = 0 \/ y = 0 THEN 0
  ELSE (x % 2) * (y % 2) + 2 * BitAnd(x \div 2, y \div 2)

\* x | y on naturals
RECURSIVE BitOr(_, _)
BitOr(x, y) ==
  IF x = 0 THEN y
  ELSE IF y = 0 THEN x
  ELSE (IF x % 2 = 1 \/ y % 2 = 1 THEN 1 ELSE 0) + 2 * BitOr(x \div 2, y \div 2)

\* x << n in an unsigned integer of w bits
Shl(x, n, w) == (x * Pow2(n)) % Pow2(w)

\* x >> n
Shr(x, n) == x \div Pow2(n)

\* ------------------------------------------------------------ formatting
HexLower == <<"0", "1", "2", "3", "4", "5", "6", "7",
              "8", "9", "a", "b", "c", "d", "e", "f">>

HexUpper == <<"0", "1", "2", "3", "4", "5", "6", "7",
              "8", "9", "A", "B", "C", "D", "E", "F">>

\* the digits of n in base 16, most significant first, without padding
RECURSIVE HexDigits(_)
HexDigits(n) ==
  IF n < 16 THEN <<n>> ELSE Append(HexDigits(n \div 16), n % 16)

\* digits left-padded with zeros to at least width places
RECURSIVE PadTo(_, _)
PadTo(digits, width) ==
  IF Len(digits) >= width THEN digits ELSE PadTo(<<0>> \o digits, width)

\* format!("{:x}", n)
FmtLowerHex(n) == [k \in 1..Len(HexDigits(n)) |-> HexLower[HexDigits(n)[k] + 1]]

\* format!("{:02X}", n) and format!("{:04X}", n)
FmtUpperHex(n, width) ==
  LET d == PadTo(HexDigits(n), width)
  IN  [k \in 1..Len(d) |-> HexUpper[d[k] + 1]]

\* the digits of n in base 10, most significant first
RECURSIVE DecDigits(_)
DecDigits(n) ==
  IF n < 10 THEN <<n>> ELSE Append(DecDigits(n \div 10), n % 10)

\* format!("{}", n)
FmtDec(n) == [k \in 1..Len(DecDigits(n)) |-> HexLower[DecDigits(n)[k] + 1]]

\* the line load_rom writes to stderr
LoadedLine(n) == <<"bytes loaded: ">> \o FmtDec(n)

\* the line run writes to stderr for an unrecognised instruction
UnrecognisedLine(hb, lb) ==
  <<"Unrecognised instrution 0x">> \o FmtLowerHex(hb) \o FmtLowerHex(lb)

\* ------------------------------------------------------------ state
VARIABLES
  ram,        \* Chip8.ram, a sequence: the cell at address a is ram[a + 1]
  registers,  \* Chip8.registers: v_0 .. v_f and i
  pc,         \* Chip8.pc
  sp,         \* Chip8.sp
  stack,      \* Chip8.stack, a sequence: slot k is stack[k + 1]
  ctl,        \* "idle": no call in progress; "running": in run's loop, before
              \* a fetch; "panicked": the thread has panicked
  stderr,     \* the last line written to stderr
  stdout,     \* the last snapshot written to stdout
  ncalls,     \* calls made so far
  hist        \* history: the last call and the one before it, and the
              \* registers, pc, sp and stack when the last run began

vars == <<ram, registers, pc, sp, stack, ctl, stderr, stdout, ncalls, hist>>

\* hist after a call of name
Called(name) == [hist EXCEPT !.prev = hist.call, !.call = name]

\* ------------------------------------------------------------ decoding
\* fn high(byte: &u8) -> u8
high(byte) ==
  LET mask == Shl(1, 4, 8) - 1
  IN  Shr(BitAnd(byte, Shl(mask, 4, 8)), 4)

\* fn low(byte: &u8) -> u8
low(byte) ==
  LET mask == Shl(1, 4, 8) - 1
  IN  BitAnd(byte, mask)

\* the cell of m at address a
Cell(m, a) == m[a + 1]

\* Chip8::high_byte: &self.ram[self.pc]
high_byte(m, p) == Cell(m, p)

\* Chip8::low_byte: &self.ram[self.pc + 1]
low_byte(m, p) == Cell(m, p + 1)

\* instruction with the two bytes in the other order
instruction_le(m, p) == BitOr(Shl(low_byte(m, p), 8, 16), high_byte(m, p))

\* Chip8::instruction
instruction(m, p) == BitOr(Shl(high_byte(m, p), 8, 16), low_byte(m, p))

\* addr with a mask of 8 bits for the mask of 12
addr_mask8(m, p) ==
  LET mask == Shl(1, 8, 16) - 1
  IN  BitAnd(instruction(m, p), mask)

\* Chip8::addr
addr(m, p) ==
  LET mask == Shl(1, 12, 16) - 1
  IN  BitAnd(instruction(m, p), mask)

\* ------------------------------------------------------------ registers
\* Registers::new
RegistersNew ==
  [v_0 |-> 0, v_1 |-> 0, v_2 |-> 0, v_3 |-> 0, v_4 |-> 0, v_5 |-> 0,
   v_6 |-> 0, v_7 |-> 0, v_8 |-> 0, v_9 |-> 0, v_a |-> 0, v_b |-> 0,
   v_c |-> 0, v_d |-> 0, v_e |-> 0, v_f |-> 0, i |-> 0]

\* put whose arm for 0xa sets v_b
put_alias(regs, register, value) ==
  CASE register = 0  -> [panic |-> FALSE, regs |-> [regs EXCEPT !.v_0 = value]]
    [] register = 1  -> [panic |-> FALSE, regs |-> [regs EXCEPT !.v_1 = value]]
    [] register = 2  -> [panic |-> FALSE, regs |-> [regs EXCEPT !.v_2 = value]]
    [] register = 3  -> [panic |-> FALSE, regs |-> [regs EXCEPT !.v_3 = value]]
    [] register = 4  -> [panic |-> FALSE, regs |-> [regs EXCEPT !.v_4 = value]]
    [] register = 5  -> [panic |-> FALSE, regs |-> [regs EXCEPT !.v_5 = value]]
    [] register = 6  -> [panic |-> FALSE, regs |-> [regs EXCEPT !.v_6 = value]]
    [] register = 7  -> [panic |-> FALSE, regs |-> [regs EXCEPT !.v_7 = value]]
    [] register = 8  -> [panic |-> FALSE, regs |-> [regs EXCEPT !.v_8 = value]]
    [] register = 9  -> [panic |-> FALSE, regs |-> [regs EXCEPT !.v_9 = value]]
    [] register = 10 -> [panic |-> FALSE, regs |-> [regs EXCEPT !.v_b = value]]
    [] register = 11 -> [panic |-> FALSE, regs |-> [regs EXCEPT !.v_b = value]]
    [] register = 12 -> [panic |-> FALSE, regs |-> [regs EXCEPT !.v_c = value]]
    [] register = 13 -> [panic |-> FALSE, regs |-> [regs EXCEPT !.v_d = value]]
    [] register = 14 -> [panic |-> FALSE, regs |-> [regs EXCEPT !.v_e = value]]
    [] register = 15 -> [panic |-> FALSE, regs |-> [regs EXCEPT !.v_f = value]]
    [] OTHER         -> [panic |-> TRUE, regs |-> regs]

\* put without the arm for 0x0
put_no_v0(regs, register, value) ==
  CASE register = 1  -> [panic |-> FALSE, regs |-> [regs EXCEPT !.v_1 = value]]
    [] register = 2  -> [panic |-> FALSE, regs |-> [regs EXCEPT !.v_2 = value]]
    [] register = 3  -> [panic |-> FALSE, regs |-> [regs EXCEPT !.v_3 = value]]
    [] register = 4  -> [panic |-> FALSE, regs |-> [regs EXCEPT !.v_4 = value]]
    [] register = 5  -> [panic |-> FALSE, regs |-> [regs EXCEPT !.v_5 = value]]
    [] register = 6  -> [panic |-> FALSE, regs |-> [regs EXCEPT !.v_6 = value]]
    [] register = 7  -> [panic |-> FALSE, regs |-> [regs EXCEPT !.v_7 = value]]
    [] register = 8  -> [panic |-> FALSE, regs |-> [regs EXCEPT !.v_8 = value]]
    [] register = 9  -> [panic |-> FALSE, regs |-> [regs EXCEPT !.v_9 = value]]
    [] register = 10 -> [panic |-> FALSE, regs |-> [regs EXCEPT !.v_a = value]]
    [] register = 11 -> [panic |-> FALSE, regs |-> [regs EXCEPT !.v_b = value]]
    [] register = 12 -> [panic |-> FALSE, regs |-> [regs EXCEPT !.v_c = value]]
    [] register = 13 -> [panic |-> FALSE, regs |-> [regs EXCEPT !.v_d = value]]
    [] register = 14 -> [panic |-> FALSE, regs |-> [regs EXCEPT !.v_e = value]]
    [] register = 15 -> [panic |-> FALSE, regs |-> [regs EXCEPT !.v_f = value]]
    [] OTHER         -> [panic |-> TRUE, regs |-> regs]

\* put with the register id taken modulo 16
put_wrap(regs, register, value) ==
  CASE register % 16 = 0  -> [panic |-> FALSE, regs |-> [regs EXCEPT !.v_0 = value]]
    [] register % 16 = 1  -> [panic |-> FALSE, regs |-> [regs EXCEPT !.v_1 = value]]
    [] register % 16 = 2  -> [panic |-> FALSE, regs |-> [regs EXCEPT !.v_2 = value]]
    [] register % 16 = 3  -> [panic |-> FALSE, regs |-> [regs EXCEPT !.v_3 = value]]
    [] register % 16 = 4  -> [panic |-> FALSE, regs |-> [regs EXCEPT !.v_4 = value]]
    [] register % 16 = 5  -> [panic |-> FALSE, regs |-> [regs EXCEPT !.v_5 = value]]
    [] register % 16 = 6  -> [panic |-> FALSE, regs |-> [regs EXCEPT !.v_6 = value]]
    [] register % 16 = 7  -> [panic |-> FALSE, regs |-> [regs EXCEPT !.v_7 = value]]
    [] register % 16 = 8  -> [panic |-> FALSE, regs |-> [regs EXCEPT !.v_8 = value]]
    [] register % 16 = 9  -> [panic |-> FALSE, regs |-> [regs EXCEPT !.v_9 = value]]
    [] register % 16 = 10 -> [panic |-> FALSE, regs |-> [regs EXCEPT !.v_a = value]]
    [] register % 16 = 11 -> [panic |-> FALSE, regs |-> [regs EXCEPT !.v_b = value]]
    [] register % 16 = 12 -> [panic |-> FALSE, regs |-> [regs EXCEPT !.v_c = value]]
    [] register % 16 = 13 -> [panic |-> FALSE, regs |-> [regs EXCEPT !.v_d = value]]
    [] register % 16 = 14 -> [panic |-> FALSE, regs |-> [regs EXCEPT !.v_e = value]]
    [] register % 16 = 15 -> [panic |-> FALSE, regs |-> [regs EXCEPT !.v_f = value]]
    [] OTHER              -> [panic |-> TRUE, regs |-> regs]

\* Registers::put: the registers after put(register, value), and whether it
\* panicked
put(regs, register, value) ==
  CASE register = 0  -> [panic |-> FALSE, regs |-> [regs EXCEPT !.v_0 = value]]
    [] register = 1  -> [panic |-> FALSE, regs |-> [regs EXCEPT !.v_1 = value]]
    [] register = 2  -> [panic |-> FALSE, regs |-> [regs EXCEPT !.v_2 = value]]
    [] register = 3  -> [panic |-> FALSE, regs |-> [regs EXCEPT !.v_3 = value]]
    [] register = 4  -> [panic |-> FALSE, regs |-> [regs EXCEPT !.v_4 = value]]
    [] register = 5  -> [panic |-> FALSE, regs |-> [regs EXCEPT !.v_5 = value]]
    [] register = 6  -> [panic |-> FALSE, regs |-> [regs EXCEPT !.v_6 = value]]
    [] register = 7  -> [panic |-> FALSE, regs |-> [regs EXCEPT !.v_7 = value]]
    [] register = 8  -> [panic |-> FALSE, regs |-> [regs EXCEPT !.v_8 = value]]
    [] register = 9  -> [panic |-> FALSE, regs |-> [regs EXCEPT !.v_9 = value]]
    [] register = 10 -> [panic |-> FALSE, regs |-> [regs EXCEPT !.v_a = value]]
    [] register = 11 -> [panic |-> FALSE, regs |-> [regs EXCEPT !.v_b = value]]
    [] register = 12 -> [panic |-> FALSE, regs |-> [regs EXCEPT !.v_c = value]]
    [] register = 13 -> [panic |-> FALSE, regs |-> [regs EXCEPT !.v_d = value]]
    [] register = 14 -> [panic |-> FALSE, regs |-> [regs EXCEPT !.v_e = value]]
    [] register = 15 -> [panic |-> FALSE, regs |-> [regs EXCEPT !.v_f = value]]
    [] OTHER         -> [panic |-> TRUE, regs |-> regs]

\* ------------------------------------------------------------ images
\* the two instructions a long image repeats: A123 6077
Pattern == <<161, 35, 96, 119>>

\* Pattern, k times over
RECURSIVE Repeat(_)
Repeat(k) ==
  IF k = 0 THEN <<>>
  ELSE IF k % 2 = 1 THEN Repeat(k - 1) \o Pattern
  ELSE LET half == Repeat(k \div 2) IN half \o half

\* an image of n bytes repeating Pattern
Fill(n) == SubSeq(Repeat(n \div Len(Pattern) + 1), 1, n)

\* the short images: none, A123, 6B77, FFFF, 1203, 0123, 6A and AFFF 6A45 A1
ShortImages ==
  {<<>>, <<161, 35>>, <<107, 119>>, <<255, 255>>, <<18, 3>>, <<1, 35>>,
   <<106>>, <<175, 255, 106, 69, 161>>}

\* the images that fill the space above NORMAL_START_INDEX, or overrun it
LongImages ==
  {Fill(n) : n \in (RamSize - NORMAL_START_INDEX)
                     ..(RamSize - NORMAL_START_INDEX + MaxOver)}

Images == ShortImages \cup LongImages

\* ------------------------------------------------------------ actions
\* new with sp at the top of the stack
InitSpTop ==
  /\ ram = [k \in 1..RamSize |-> 0]
  /\ registers = RegistersNew
  /\ pc = 0
  /\ sp = StackSize
  /\ stack = [k \in 1..StackSize |-> 0]
  /\ ctl = "idle"
  /\ stderr = <<>>
  /\ stdout = <<>>
  /\ ncalls = 0
  /\ hist = [call |-> "new", prev |-> "none", regs |-> RegistersNew, pc |-> 0,
             sp |-> 0, stack |-> [k \in 1..StackSize |-> 0]]

\* Chip8::new
Init ==
  /\ ram = [k \in 1..RamSize |-> 0]
  /\ registers = RegistersNew
  /\ pc = 0
  /\ sp = 0
  /\ stack = [k \in 1..StackSize |-> 0]
  /\ ctl = "idle"
  /\ stderr = <<>>
  /\ stdout = <<>>
  /\ ncalls = 0
  /\ hist = [call |-> "new", prev |-> "none", regs |-> RegistersNew, pc |-> 0,
             sp |-> 0, stack |-> [k \in 1..StackSize |-> 0]]

\* the bytes load_rom's loop writes before it ends or panics
Written(bytes) ==
  IF NORMAL_START_INDEX + Len(bytes) > RamSize
  THEN SubSeq(bytes, 1, RamSize - NORMAL_START_INDEX)
  ELSE bytes

\* load_rom that zeroes ram before it copies
load_rom_clear(m, bytes) ==
  LET w == Written(bytes)
  IN  [ram |-> [k \in 1..NORMAL_START_INDEX |-> 0] \o w
                 \o [k \in 1..(RamSize - NORMAL_START_INDEX - Len(w)) |-> 0],
       panic |-> NORMAL_START_INDEX + Len(bytes) > RamSize]

\* load_rom whose index wraps at the end of ram and never panics
load_rom_wrap(m, bytes) ==
  LET w == Written(bytes)
      over == SubSeq(bytes, Len(w) + 1, Len(bytes))
  IN  [ram |-> over \o SubSeq(m, Len(over) + 1, NORMAL_START_INDEX) \o w
                 \o SubSeq(m, NORMAL_START_INDEX + Len(w) + 1, RamSize),
       panic |-> FALSE]

\* Chip8::load_rom after the file is read: the loop writes the bytes in
\* order from NORMAL_START_INDEX on and panics at the first index outside
\* ram, the cells before it written
load_rom(m, bytes) ==
  LET w == Written(bytes)
  IN  [ram |-> SubSeq(m, 1, NORMAL_START_INDEX) \o w
                 \o SubSeq(m, NORMAL_START_INDEX + Len(w) + 1, RamSize),
       panic |-> NORMAL_START_INDEX + Len(bytes) > RamSize]

\* a call of Chip8::load_rom on a file holding bytes
LoadRom(bytes) ==
  /\ ctl = "idle"
  /\ ncalls < MaxCalls
  /\ ncalls' = ncalls + 1
  /\ hist' = Called("load_rom")
  /\ LET r == load_rom(ram, bytes)
     IN  /\ ram' = r.ram
         /\ IF r.panic
            THEN /\ ctl' = "panicked"
                 /\ stderr' = <<"panic", "index out of bounds">>
            ELSE /\ ctl' = "idle"
                 /\ stderr' = LoadedLine(Len(bytes))
  /\ UNCHANGED <<registers, pc, sp, stack, stdout>>

\* run that leaves pc where it was
RunBeginKeepPc ==
  /\ ctl = "idle"
  /\ ncalls < MaxCalls
  /\ ncalls' = ncalls + 1
  /\ hist' = [Called("run") EXCEPT !.regs = registers, !.pc = pc,
                                       !.sp = sp, !.stack = stack]
  /\ ctl' = "running"
  /\ UNCHANGED <<ram, registers, pc, sp, stack, stderr, stdout>>

\* Chip8::run up to its loop
RunBegin ==
  /\ ctl = "idle"
  /\ ncalls < MaxCalls
  /\ ncalls' = ncalls + 1
  /\ hist' = [Called("run") EXCEPT !.regs = registers, !.pc = pc,
                                       !.sp = sp, !.stack = stack]
  /\ pc' = NORMAL_START_INDEX
  /\ ctl' = "running"
  /\ UNCHANGED <<ram, registers, sp, stack, stderr, stdout>>

\* a cycle of run's loop whose fetch indexes outside ram
CycleFetchPanic ==
  /\ ctl = "running"
  /\ pc + 1 >= RamSize
  /\ ctl' = "panicked"
  /\ stderr' = <<"panic", "index out of bounds">>
  /\ UNCHANGED <<ram, registers, pc, sp, stack, stdout, ncalls, hist>>

\* load_i that returns nnn, as a jump would
load_i_jump(m, p, regs) ==
  [regs |-> [regs EXCEPT !.i = addr(m, p)], pc |-> addr(m, p)]

\* load_i that returns pc + 1
load_i_odd(m, p, regs) ==
  [regs |-> [regs EXCEPT !.i = addr(m, p)], pc |-> p + 1]

\* load_i that returns pc as it was
load_i_stay(m, p, regs) ==
  [regs |-> [regs EXCEPT !.i = addr(m, p)], pc |-> p]

\* load_i that ors nnn into I
load_i_or(m, p, regs) ==
  [regs |-> [regs EXCEPT !.i = BitOr(regs.i, addr(m, p))], pc |-> p + 2]

\* load_i that adds nnn to I
load_i_add(m, p, regs) ==
  [regs |-> [regs EXCEPT !.i = (regs.i + addr(m, p)) % 65536], pc |-> p + 2]

\* Chip8::load_i: the registers after it and the pc it returns
load_i(m, p, regs) ==
  [regs |-> [regs EXCEPT !.i = addr(m, p)], pc |-> p + 2]

\* a cycle of run's loop on Annn: self.pc = self.load_i()
CycleLoadI ==
  /\ ctl = "running"
  /\ pc + 1 < RamSize
  /\ high(high_byte(ram, pc)) = 10
  /\ LET r == load_i(ram, pc, registers)
     IN  /\ registers' = r.regs
         /\ pc' = r.pc
  /\ UNCHANGED <<ram, sp, stack, ctl, stderr, stdout, ncalls, hist>>

\* load_vx that takes the register from the high nibble
load_vx_high(m, p, regs) ==
  LET register == high(high_byte(m, p))
      r == put(regs, register, low_byte(m, p))
  IN  [panic |-> r.panic, regs |-> r.regs, pc |-> p + 2]

\* load_vx that takes the whole high byte for the register id
load_vx_byte(m, p, regs) ==
  LET register == high_byte(m, p)
      r == put(regs, register, low_byte(m, p))
  IN  [panic |-> r.panic, regs |-> r.regs, pc |-> p + 2]

\* Chip8::load_vx: the registers after it, the pc it returns, and whether
\* put panicked
load_vx(m, p, regs) ==
  LET register == low(high_byte(m, p))
      r == put(regs, register, low_byte(m, p))
  IN  [panic |-> r.panic, regs |-> r.regs, pc |-> p + 2]

\* a cycle on 6xkk that also stores kk in the cell I points at
CycleLoadVxStore ==
  /\ ctl = "running"
  /\ pc + 1 < RamSize
  /\ high(high_byte(ram, pc)) = 6
  /\ LET r == load_vx(ram, pc, registers)
     IN  IF r.panic
         THEN /\ ctl' = "panicked"
              /\ stderr' = <<"panic", "Tried to set a register that doesn't exist">>
              /\ UNCHANGED <<registers, pc, ram>>
         ELSE /\ registers' = r.regs
              /\ pc' = r.pc
              /\ ram' = [ram EXCEPT ![registers.i + 1] = low_byte(ram, pc)]
              /\ UNCHANGED <<ctl, stderr>>
  /\ UNCHANGED <<sp, stack, stdout, ncalls, hist>>

\* a cycle of run's loop on 6xkk: self.pc = self.load_vx()
CycleLoadVx ==
  /\ ctl = "running"
  /\ pc + 1 < RamSize
  /\ high(high_byte(ram, pc)) = 6
  /\ LET r == load_vx(ram, pc, registers)
     IN  IF r.panic
         THEN /\ ctl' = "panicked"
              /\ stderr' = <<"panic", "Tried to set a register that doesn't exist">>
              /\ UNCHANGED <<registers, pc>>
         ELSE /\ registers' = r.regs
              /\ pc' = r.pc
              /\ UNCHANGED <<ctl, stderr>>
  /\ UNCHANGED <<ram, sp, stack, stdout, ncalls, hist>>

\* an unrecognised instruction that is stepped over on the break
CycleUnrecognisedSkip ==
  /\ ctl = "running"
  /\ pc + 1 < RamSize
  /\ high(high_byte(ram, pc)) \notin {10, 6}
  /\ stderr' = UnrecognisedLine(high_byte(ram, pc), low_byte(ram, pc))
  /\ ctl' = "idle"
  /\ pc' = pc + 2
  /\ UNCHANGED <<ram, registers, sp, stack, stdout, ncalls, hist>>

\* a cycle of run's loop on any other instruction: report it and break
CycleUnrecognised ==
  /\ ctl = "running"
  /\ pc + 1 < RamSize
  /\ high(high_byte(ram, pc)) \notin {10, 6}
  /\ stderr' = UnrecognisedLine(high_byte(ram, pc), low_byte(ram, pc))
  /\ ctl' = "idle"
  /\ UNCHANGED <<ram, registers, pc, sp, stack, stdout, ncalls, hist>>

\* Chip8::load_rom when the file cannot be read
LoadRomNoFile ==
  /\ ctl = "idle"
  /\ ncalls < MaxCalls
  /\ ncalls' = ncalls + 1
  /\ hist' = Called("load_rom")
  /\ ctl' = "panicked"
  /\ stderr' = <<"panic", "Could not open file.">>
  /\ UNCHANGED <<ram, registers, pc, sp, stack, stdout>>

\* Registers::dump_to_stdout: the two lines it prints
RegistersDump(regs) ==
  <<[v_0 |-> FmtUpperHex(regs.v_0, 2), v_1 |-> FmtUpperHex(regs.v_1, 2),
     v_2 |-> FmtUpperHex(regs.v_2, 2), v_3 |-> FmtUpperHex(regs.v_3, 2),
     v_4 |-> FmtUpperHex(regs.v_4, 2), v_5 |-> FmtUpperHex(regs.v_5, 2),
     v_6 |-> FmtUpperHex(regs.v_6, 2), v_7 |-> FmtUpperHex(regs.v_7, 2),
     v_8 |-> FmtUpperHex(regs.v_8, 2), v_9 |-> FmtUpperHex(regs.v_9, 2),
     v_a |-> FmtUpperHex(regs.v_a, 2), v_b |-> FmtUpperHex(regs.v_b, 2),
     v_c |-> FmtUpperHex(regs.v_c, 2), v_d |-> FmtUpperHex(regs.v_d, 2),
     v_e |-> FmtUpperHex(regs.v_e, 2), v_f |-> FmtUpperHex(regs.v_f, 2)],
    [i |-> FmtUpperHex(regs.i, 4)]>>

\* the memory section of Chip8::dump_to_stdout: a line for every 64 bytes,
\* a word of four digits for every 2 bytes of it
MemoryDump(m) ==
  [line \in 1..(RamSize \div 64) |->
     [word \in 1..32 |->
        LET a == 64 * (line - 1) + 2 * (word - 1)
        IN  FmtUpperHex(Cell(m, a), 2) \o FmtUpperHex(Cell(m, a + 1), 2)]]

\* what Chip8::dump_to_stdout prints
Snapshot(m, regs, p, s, st) ==
  [memory |-> MemoryDump(m),
   registers |-> RegistersDump(regs),
   pc |-> FmtUpperHex(p, 4),
   sp |-> FmtUpperHex(s, 4),
   stack |-> [k \in 1..StackSize |-> FmtDec(st[k])]]

\* dump_to_stdout that walks memory with pc and leaves it at the end of ram
DumpToStdoutWalksPc ==
  /\ ctl = "idle"
  /\ ncalls < MaxCalls
  /\ ncalls' = ncalls + 1
  /\ hist' = Called("dump_to_stdout")
  /\ stdout' = Snapshot(ram, registers, pc, sp, stack)
  /\ pc' = RamSize
  /\ UNCHANGED <<ram, registers, sp, stack, ctl, stderr>>

\* Chip8::dump_to_stdout
DumpToStdout ==
  /\ ctl = "idle"
  /\ ncalls < MaxCalls
  /\ ncalls' = ncalls + 1
  /\ hist' = Called("dump_to_stdout")
  /\ stdout' = Snapshot(ram, registers, pc, sp, stack)
  /\ UNCHANGED <<ram, registers, pc, sp, stack, ctl, stderr>>

Next ==
  \/ \E bytes \in Images : LoadRom(bytes)
  \/ RunBegin
  \/ CycleFetchPanic
  \/ CycleLoadI
  \/ CycleLoadVx
  \/ CycleUnrecognised
  \/ LoadRomNoFile
  \/ DumpToStdout

Spec == Init /\ [][Next]_vars

\* ------------------------------------------------------------ the register file alone
\* the register ids put is called with: every id of a register, and 16, 26,
\* 31 and 255
PutIds == (0..15) \cup {16, 26, 31, 255}

\* the values put is called with
PutValues == {119, 255}

\* a call of Registers::put on the register file
Put(register, value) ==
  /\ ctl = "idle"
  /\ ncalls < MaxPuts
  /\ ncalls' = ncalls + 1
  /\ hist' = Called("put")
  /\ LET r == put(registers, register, value)
     IN  IF r.panic
         THEN /\ ctl' = "panicked"
              /\ stderr' = <<"panic", "Tried to set a register that doesn't exist">>
              /\ UNCHANGED registers
         ELSE /\ registers' = r.regs
              /\ UNCHANGED <<ctl, stderr>>
  /\ UNCHANGED <<ram, pc, sp, stack, stdout>>

NextPut == \E register \in PutIds, value \in PutValues : Put(register, value)

SpecPut == Init /\ [][NextPut]_vars

\* ------------------------------------------------------------ one word, decoded
\* the bytes each byte of the word is paired with
DecodeBytes == {0, 15, 35, 69, 106, 119, 161, 240, 255}

\* the 2-byte images: every high byte with each of DecodeBytes, and each of
\* DecodeBytes with every low byte
DecodeImages ==
  {<<h, l>> : h \in Byte, l \in DecodeBytes}
    \cup {<<h, l>> : h \in DecodeBytes, l \in Byte}

\* Chip8::new, then load_rom of a 2-byte image
InitDecode ==
  \E bytes \in DecodeImages :
    /\ ram = load_rom([k \in 1..RamSize |-> 0], bytes).ram
    /\ registers = RegistersNew
    /\ pc = 0
    /\ sp = 0
    /\ stack = [k \in 1..StackSize |-> 0]
    /\ ctl = "idle"
    /\ stderr = LoadedLine(Len(bytes))
    /\ stdout = <<>>
    /\ ncalls = 1
    /\ hist = [call |-> "load_rom", prev |-> "new", regs |-> RegistersNew,
               pc |-> 0, sp |-> 0, stack |-> [k \in 1..StackSize |-> 0]]

\* run, as often as MaxCalls allows
NextDecode ==
  \/ RunBegin
  \/ CycleLoadI
  \/ CycleLoadVx
  \/ CycleUnrecognised

SpecDecode == InitDecode /\ [][NextDecode]_vars

\* ------------------------------------------------------------ the claims
\* the sixteen V registers, in order
VRegs(regs) ==
  <<regs.v_0, regs.v_1, regs.v_2, regs.v_3, regs.v_4, regs.v_5, regs.v_6,
    regs.v_7, regs.v_8, regs.v_9, regs.v_a, regs.v_b, regs.v_c, regs.v_d,
    regs.v_e, regs.v_f>>

\* the top nibble of a byte, by arithmetic
Family(byte) == byte \div 16

\* the 16-bit word at address a, by arithmetic
Word(m, a) == 256 * Cell(m, a) + Cell(m, a + 1)

\* every word at the even addresses from NORMAL_START_INDEX on is Annn or 6xkk
AllRecognised(m) ==
  \A k \in 0..((RamSize - NORMAL_START_INDEX) \div 2 - 1) :
    Family(Cell(m, NORMAL_START_INDEX + 2 * k)) \in {10, 6}

\* run is about to fetch at a pc inside ram
AtFetch == ctl = "running" /\ pc + 1 < RamSize

\* stderr holds the report of an unrecognised instruction
Reported == Len(stderr) > 0 /\ stderr[1] = "Unrecognised instrution 0x"

\* the number a sequence of hexadecimal digits denotes
RECURSIVE HexValue(_)
HexValue(digits) ==
  IF Len(digits) = 0 THEN 0
  ELSE 16 * HexValue(SubSeq(digits, 1, Len(digits) - 1))
       + (CHOOSE k \in 0..15 : HexLower[k + 1] = digits[Len(digits)])

\* C1: a cycle of run on a word of family 0xA sets I to the low 12 bits of
\* the word, adds 2 to PC and leaves the V registers, ram, SP and the stack
\* as they were.
C1_LoadISetsI ==
  [][(AtFetch /\ Family(Cell(ram, pc)) = 10) =>
       /\ registers'.i = Word(ram, pc) % 4096
       /\ pc' = pc + 2
       /\ VRegs(registers') = VRegs(registers)
       /\ ram' = ram
       /\ sp' = sp
       /\ stack' = stack]_vars

\* run has executed A123 at 512
C1_Witness ==
  ctl = "running" /\ pc = 514 /\ Word(ram, 512) = 41251 /\ registers.i = 291

\* C2: a cycle of run on a word of family 0x6 sets Vx, x the low nibble of
\* ram[PC], to ram[PC+1], adds 2 to PC and leaves the other V registers, I,
\* ram, SP and the stack as they were.
C2_LoadVxSetsVx ==
  [][(AtFetch /\ Family(Cell(ram, pc)) = 6) =>
       /\ VRegs(registers') =
            [VRegs(registers) EXCEPT ![(Cell(ram, pc) % 16) + 1] = Cell(ram, pc + 1)]
       /\ registers'.i = registers.i
       /\ pc' = pc + 2
       /\ ram' = ram
       /\ sp' = sp
       /\ stack' = stack]_vars

\* run has executed AFFF at 512 and 6A45 at 514
C2_Witness ==
  /\ ctl = "running" /\ pc = 516 /\ Word(ram, 514) = 27205
  /\ registers.v_a = 69 /\ registers.i = 4095

\* C3: on a word of any other family run stops without moving PC and
\* without changing a register, ram, SP or the stack.
C3_UnrecognisedHalts ==
  [][(AtFetch /\ Family(Cell(ram, pc)) \notin {10, 6}) =>
       /\ ctl' = "idle"
       /\ pc' = pc
       /\ registers' = registers
       /\ ram' = ram
       /\ sp' = sp
       /\ stack' = stack]_vars

\* run has halted at 518 after AFFF 6A45 A100
C3_Witness ==
  /\ ctl = "idle" /\ Reported /\ pc = 518 /\ Family(Cell(ram, 518)) = 0
  /\ registers.v_a = 69 /\ registers.i = 256

\* C4: the report of an unrecognised instruction denotes the word fetched.
C4_ReportDenotesWord ==
  (ctl = "idle" /\ Reported) => HexValue(Tail(stderr)) = Word(ram, pc)

\* C5, as claimed: at every fetch of run PC + 1 < 4096.
C5_FetchInsideRam == ctl = "running" => pc + 1 < RamSize

\* C5, amended: at every fetch of run PC + 1 < 4096 or PC = 4096, and PC is
\* 4096 only when every word at the even addresses 512..4094 has family 0xA
\* or 0x6.
C5_FetchInsideRamOrAtEnd ==
  ctl = "running" =>
    \/ pc + 1 < RamSize
    \/ pc = RamSize /\ AllRecognised(ram)

\* run is about to fetch at 4096
C5_Witness == ctl = "running" /\ pc = RamSize /\ registers.v_0 = 119

\* C6: PC is even in every reachable state.
C6_PcEven == pc % 2 = 0

\* run has executed two instructions
C6_Witness == ctl = "running" /\ pc = NORMAL_START_INDEX + 4

\* C7: when every word at the even addresses 512..4094 has family 0xA or
\* 0x6, run does not return; it panics only at the fetch with PC = 4096, and
\* that fetch panics without moving PC and without changing a register, ram,
\* SP or the stack.
C7_FetchOutsideRamIsFatal ==
  [][(/\ ctl = "running"
      /\ ctl' # "running" \/ pc + 1 >= RamSize
      /\ AllRecognised(ram)) =>
       /\ ctl' # "idle"
       /\ ctl' = "panicked" => pc = RamSize
       /\ pc + 1 >= RamSize =>
            /\ ctl' = "panicked"
            /\ pc' = pc
            /\ registers' = registers
            /\ ram' = ram
            /\ sp' = sp
            /\ stack' = stack]_vars

\* run has panicked at the fetch with PC = 4096
C7_Witness ==
  /\ ctl = "panicked" /\ pc = RamSize
  /\ stderr = <<"panic", "index out of bounds">>
  /\ registers.i = 291

\* C8: load_rom of an image that fits copies it to 512 on and leaves every
\* other cell, the registers, PC, SP and the stack as they were.
C8_LoadCopiesImage ==
  [][\A b \in Images :
       LET n == Len(b)
       IN  (/\ ctl = "idle" /\ ncalls' # ncalls
            /\ n <= RamSize - NORMAL_START_INDEX
            /\ stderr' = LoadedLine(n)
            /\ LoadRom(b)) =>
             /\ \A k \in 0..(n - 1) :
                  Cell(ram', NORMAL_START_INDEX + k) = b[k + 1]
             /\ SubSeq(ram', 1, NORMAL_START_INDEX) = SubSeq(ram, 1, NORMAL_START_INDEX)
             /\ SubSeq(ram', NORMAL_START_INDEX + n + 1, RamSize)
                  = SubSeq(ram, NORMAL_START_INDEX + n + 1, RamSize)
             /\ registers' = registers
             /\ pc' = pc
             /\ sp' = sp
             /\ stack' = stack
             /\ ctl' = "idle"]_vars

\* 6B77 has been loaded over an image that filled ram
C8_Witness ==
  /\ ctl = "idle" /\ stderr = <<"bytes loaded: ", "2">>
  /\ Word(ram, 512) = 27511 /\ Word(ram, 514) = 24695 /\ Cell(ram, RamSize - 1) = 119

\* C9: load_rom of an image longer than 4096 - 512 panics and leaves every
\* cell below 512 as it was.
C9_LongLoadPanics ==
  [][\A b \in Images :
       (/\ ctl = "idle" /\ ncalls' # ncalls
        /\ Len(b) > RamSize - NORMAL_START_INDEX
        /\ LoadRom(b)) =>
         /\ ctl' = "panicked"
         /\ stderr' = <<"panic", "index out of bounds">>
         /\ \A a \in 0..(NORMAL_START_INDEX - 1) :
              Cell(ram', a) = Cell(ram, a)]_vars

\* load_rom has panicked after it wrote the cells up to 4095
C9_Witness ==
  /\ ctl = "panicked" /\ pc < RamSize
  /\ stderr = <<"panic", "index out of bounds">>
  /\ Cell(ram, NORMAL_START_INDEX) = 161 /\ Cell(ram, RamSize - 1) = 119

\* C10: put(r, v) with r in 0..15 sets Vr to v and leaves the other V
\* registers and I as they were.
C10_PutSetsOneRegister ==
  \A r \in 0..15, v \in Byte :
    LET q == put(registers, r, v)
    IN  /\ ~q.panic
        /\ VRegs(q.regs) = [VRegs(registers) EXCEPT ![r + 1] = v]
        /\ q.regs.i = registers.i

\* put has set v_a and v_f
C10_Witness ==
  ctl = "idle" /\ registers.v_a = 119 /\ registers.v_f = 255 /\ ncalls = 2

\* C11: for every register id r outside 0..15, put(r, v) fails with the
\* invalid-register error and changes no V register and not I: the id is not
\* clamped and not taken modulo 16, and no register is created for it.
C11_PutRejectsOtherIds ==
  /\ \A r \in 16..255, v \in PutValues :
       LET q == put(registers, r, v)
       IN  q.panic /\ q.regs = registers
  /\ ctl = "panicked" =>
       /\ stderr = <<"panic", "Tried to set a register that doesn't exist">>
       /\ hist.call = "put"

\* put has set v_a, and the next put, of a register id above 15, has failed
C11_Witness ==
  /\ ctl = "panicked" /\ hist.call = "put" /\ hist.prev = "put"
  /\ stderr = <<"panic", "Tried to set a register that doesn't exist">>
  /\ registers = [RegistersNew EXCEPT !.v_a = 119]

\* C12: decoding is big-endian nibble extraction: for the bytes h at ram[PC]
\* and l at ram[PC + 1], the word is 256 * h + l, the family is h div 16, x is
\* h mod 16, kk is l and nnn is the word mod 4096 (A123 has family 0xA and nnn
\* 0x123; 6A45 has family 6, x 0xA and kk 0x45).
C12_DecodeBigEndian ==
  AtFetch =>
    LET h == Cell(ram, pc)
        l == Cell(ram, pc + 1)
    IN  /\ instruction(ram, pc) = 256 * h + l
        /\ high(high_byte(ram, pc)) = h \div 16
        /\ low(high_byte(ram, pc)) = h % 16
        /\ low_byte(ram, pc) = l
        /\ addr(ram, pc) = (256 * h + l) % 4096
        /\ (h = 161 /\ l = 35) =>
             high(high_byte(ram, pc)) = 10 /\ addr(ram, pc) = 291
        /\ (h = 106 /\ l = 69) =>
             /\ high(high_byte(ram, pc)) = 6
             /\ low(high_byte(ram, pc)) = 10
             /\ low_byte(ram, pc) = 69

\* run is about to fetch 6A45, which decodes to family 6, x 0xA and kk 0x45
C12_Witness ==
  /\ AtFetch /\ pc = NORMAL_START_INDEX
  /\ instruction(ram, pc) = 27205
  /\ high(high_byte(ram, pc)) = 6
  /\ low(high_byte(ram, pc)) = 10
  /\ low_byte(ram, pc) = 69

\* ram after Chip8::new and load_rom of bytes
FreshWith(bytes) == load_rom([k \in 1..RamSize |-> 0], bytes).ram

\* C13: execution starts at 512: run sets PC to 512 whatever PC held before,
\* so its first fetch is at ram[512], ram[513]; on a fresh interpreter loaded
\* with A123 the first instruction leaves I = 0x123 and PC = 514, and loaded
\* with 6B77 it leaves VB = 0x77 and PC = 514.
C13_RunStartsAt512 ==
  [][/\ (ctl = "idle" /\ ctl' = "running") =>
          pc' = NORMAL_START_INDEX /\ hist'.pc = pc
     /\ (/\ ctl = "running" /\ pc = NORMAL_START_INDEX
         /\ hist.prev = "load_rom" /\ registers = RegistersNew
         /\ ram = FreshWith(<<161, 35>>)) =>
          /\ registers' = [RegistersNew EXCEPT !.i = 291]
          /\ pc' = 514
     /\ (/\ ctl = "running" /\ pc = NORMAL_START_INDEX
         /\ hist.prev = "load_rom" /\ registers = RegistersNew
         /\ ram = FreshWith(<<107, 119>>)) =>
          /\ registers' = [RegistersNew EXCEPT !.v_b = 119]
          /\ pc' = 514]_vars

\* a second run, begun with PC = 514, has executed the 6B77 at 512
C13_Witness ==
  /\ ctl = "running" /\ pc = 514
  /\ hist.prev = "run" /\ hist.pc = 514
  /\ ram = FreshWith(<<107, 119>>)
  /\ registers = [RegistersNew EXCEPT !.v_b = 119]

\* C14: dump_to_stdout is read-only and idempotent: it changes no memory
\* cell, no register, not PC, not SP and no stack slot; what it prints is the
\* snapshot of the machine state it is called in; and a snapshot taken right
\* after another, with no load or run in between, is the same as the first.
C14_DumpReadOnly ==
  [][(ctl = "idle" /\ ncalls' # ncalls /\ hist'.call = "dump_to_stdout") =>
       /\ UNCHANGED <<ram, registers, pc, sp, stack, ctl>>
       /\ stdout' = Snapshot(ram', registers', pc', sp', stack')
       /\ hist.call = "dump_to_stdout" => stdout' = stdout]_vars

\* run has halted at 512, and two snapshots were taken after it
C14_Witness ==
  /\ ctl = "idle" /\ Reported /\ pc = NORMAL_START_INDEX
  /\ hist.call = "dump_to_stdout" /\ hist.prev = "dump_to_stdout"
  /\ stdout = Snapshot(ram, registers, pc, sp, stack)

\* C15: in every reachable state SP <= 16; with only the families 0xA and 6
\* implemented, SP stays 0 and the 16 stack slots stay 0.
C15_StackUntouched ==
  /\ sp <= StackSize
  /\ sp = 0
  /\ Len(stack) = StackSize
  /\ \A k \in 1..StackSize : stack[k] = 0

\* run has executed AFFF, 6A45 and A100 and halted at 518 with the stack as
\* new made it
C15_Witness ==
  /\ ctl = "idle" /\ Reported /\ pc = 518
  /\ registers.v_a = 69 /\ registers.i = 256
  /\ sp = 0 /\ stack = [k \in 1..StackSize |-> 0]

\* C16: run terminates for every memory content: PC starts at 512, every
\* iteration of run's loop either ends the run, by the halt or by the fatal
\* fetch outside ram, with PC as it was, or executes one instruction and
\* increases PC by exactly 2; PC never exceeds 4096, so a run executes at most
\* (4096 - 512) / 2 = 1792 instructions and cannot loop forever.
C16_RunTerminates ==
  [][/\ ctl' = "running" =>
          /\ pc' \in NORMAL_START_INDEX..RamSize
          /\ (pc' - NORMAL_START_INDEX) \div 2 <= 1792
     /\ ctl = "running" =>
          \/ ctl' = "idle" /\ pc' = pc /\ pc + 1 < RamSize
          \/ ctl' = "panicked" /\ pc' = pc /\ pc + 1 >= RamSize
          \/ ctl' = "running" /\ pc' = pc + 2 /\ pc + 1 < RamSize]_vars

\* a run of 1792 instructions has ended with the fatal fetch at 4096
C16_Witness ==
  /\ ctl = "panicked" /\ hist.call = "run"
  /\ (pc - NORMAL_START_INDEX) \div 2 = 1792
  /\ registers.i = 291 /\ registers.v_0 = 119

\* C17: run never fails with the invalid-register error: the register id
\* load_vx passes to put is the low nibble of ram[PC], which is in 0..15, so
\* put's panic is not reached from run.
C17_RunNeverPutsOtherIds ==
  /\ stderr # <<"panic", "Tried to set a register that doesn't exist">>
  /\ ctl # "panicked"
  /\ (AtFetch /\ high(high_byte(ram, pc)) = 6) =>
       /\ low(high_byte(ram, pc)) \in 0..15
       /\ ~load_vx(ram, pc, registers).panic

\* run has executed 6FFF, the instruction with the largest register id
C17_Witness ==
  /\ ctl = "running" /\ pc = 514
  /\ Word(ram, NORMAL_START_INDEX) = 28671
  /\ registers = [RegistersNew EXCEPT !.v_f = 255]

\* the smallest even address from a on whose word has a family other than
\* 0xA and 6, or the first address whose word is not inside ram
RECURSIVE HaltAddr(_, _)
HaltAddr(m, a) ==
  IF a + 1 >= RamSize THEN a
  ELSE IF Family(Cell(m, a)) \in {10, 6} THEN HaltAddr(m, a + 2)
  ELSE a

\* the largest address of S
Last(S) == CHOOSE a \in S : \A b \in S : b <= a

\* the low byte of the last word at an even address in [512, h) whose high
\* byte is hb, or before if there is none
LastLow(m, hb, h, before) ==
  LET S == {a \in NORMAL_START_INDEX..(h - 1) :
              (a - NORMAL_START_INDEX) % 2 = 0 /\ Cell(m, a) = hb}
  IN  IF S = {} THEN before ELSE Cell(m, Last(S) + 1)

\* the nnn of the last Annn at an even address in [512, h), or before if
\* there is none
LastNnn(m, h, before) ==
  LET S == {a \in NORMAL_START_INDEX..(h - 1) :
              (a - NORMAL_START_INDEX) % 2 = 0 /\ Family(Cell(m, a)) = 10}
  IN  IF S = {} THEN before ELSE Word(m, Last(S)) % 4096

\* C18: when run has halted on an unrecognised word, PC is the halt address
\* h, the smallest even address >= 512 whose word has a family other than 0xA
\* and 6; every Vx is the kk of the last 6xkk at an even address in [512, h),
\* or its value before run if there is none; I is the nnn of the last Annn in
\* [512, h), or its value before run if there is none.
C18_HaltStateDetermined ==
  (ctl = "idle" /\ hist.call = "run") =>
    LET h == HaltAddr(ram, NORMAL_START_INDEX)
    IN  /\ pc = h
        /\ h + 1 < RamSize
        /\ \A x \in 0..15 :
             VRegs(registers)[x + 1] =
               LastLow(ram, 96 + x, h, VRegs(hist.regs)[x + 1])
        /\ registers.i = LastNnn(ram, h, hist.regs.i)

\* run has halted at 518 after AFFF, 6A45 and A100: I is the nnn of the
\* second Annn and VA the kk of 6A45
C18_Witness ==
  /\ ctl = "idle" /\ hist.call = "run"
  /\ HaltAddr(ram, NORMAL_START_INDEX) = 518
  /\ Word(ram, 512) = 45055 /\ Word(ram, 516) = 41216
  /\ registers.i = 256 /\ registers.v_a = 69

\* C19: run never writes memory: no step of a run, from its beginning to its
\* halt or its failure, changes any of the 4096 cells of ram, so the cells
\* after run equal the cells before it.
C19_RunKeepsRam ==
  [][(ctl = "running" \/ ctl' = "running" \/ hist'.call = "run") =>
       /\ Len(ram') = RamSize
       /\ ram' = ram]_vars

\* run has executed the 6B77 of a loaded image and halted at 514, and the
\* image is in ram as it was loaded
C19_Witness ==
  /\ ctl = "idle" /\ hist.call = "run" /\ hist.prev = "load_rom" /\ pc = 514
  /\ registers.v_b = 119
  /\ ram = FreshWith(<<107, 119>>)

\* C20: run is idempotent on a halting program: a run called right after a
\* run that halted, with no load in between, starts again at 512, changes no
\* memory cell, and halts with the V registers, I, PC, SP and the stack as
\* the first run left them.
C20_SecondRunSameState ==
  [][/\ (ctl = "idle" /\ ctl' = "running" /\ hist.call = "run") =>
          /\ pc' = NORMAL_START_INDEX
          /\ hist'.prev = "run"
          /\ hist'.regs = registers /\ hist'.pc = pc
          /\ hist'.sp = sp /\ hist'.stack = stack
     /\ (hist'.call = "run" /\ hist'.prev = "run") => ram' = ram
     /\ (hist.call = "run" /\ hist.prev = "run" /\ ctl = "running") =>
          /\ ctl' # "panicked"
          /\ ctl' = "idle" =>
               /\ registers' = hist.regs
               /\ pc' = hist.pc
               /\ sp' = hist.sp
               /\ stack' = hist.stack]_vars

\* the second run over AFFF, 6A45, A100 has halted at 518 as the first did
C20_Witness ==
  /\ ctl = "idle" /\ hist.call = "run" /\ hist.prev = "run"
  /\ pc = 518 /\ hist.pc = 518
  /\ registers.v_a = 69 /\ registers.i = 256 /\ hist.regs = registers
====
